---- MODULE Spec2Model ----
(***************************************************************************)
(* The blog API of server.js and its two mongoose models: the credential   *)
(* store (User), the post store (BlogPost), the Basic-auth gate and the    *)
(* request handlers.                                                       *)
(*                                                                         *)
(* Strings are sequences of one-character strings, so that trim and the    *)
(* template literal of authorName are computed and not assumed.            *)
(*                                                                         *)
(* A request is modelled from its first access to a store: its arrival and *)
(* the code that runs before that access read nothing shared.  A request   *)
(* that awaits a later store operation is a record in reqs.  Every step    *)
(* writes what it did for its request (the response the client gets, the   *)
(* number of send calls, the number of verdict callbacks) into turn; the   *)
(* step EndTurn clears it before the next step runs.                       *)
(***************************************************************************)
EXTENDS Integers, Sequences, FiniteSets, Bags, TLC

VARIABLES users, posts, nextId, reqs, turn

vars == <<users, posts, nextId, reqs, turn>>

----------------------------------------------------------------------------
(* Bounds *)

\* requests that may await a store operation at the same time
MaxInFlight == 2
\* posts ever inserted (ids are 1..MaxPosts and never reused)
MaxPosts == 2

----------------------------------------------------------------------------
(* Values *)

\* a field absent from a JSON body, the JavaScript value undefined
Undefined == <<"undefined">>
\* req.body.id absent
NoId == 0
\* no response was sent
NoResp == 0

Str(c) == <<c>>
SP == " "

RECURSIVE TrimLeft(_)
TrimLeft(s) == IF s # <<>> /\ Head(s) = SP THEN TrimLeft(Tail(s)) ELSE s

RECURSIVE TrimRight(_)
TrimRight(s) ==
    IF s # <<>> /\ s[Len(s)] = SP THEN TrimRight(SubSeq(s, 1, Len(s) - 1)) ELSE s

\* String.prototype.trim
trim(s) == TrimRight(TrimLeft(s))

\* !value, for a value that is a string or undefined
Falsy(v) == v = Undefined \/ v = <<>>

\* field in req.body
Present(v) == v # Undefined

----------------------------------------------------------------------------
(* models: User *)

\* bcrypt.hash(password, 10): a digest that is not the password
hashPassword(password) == <<"$2a$10$">> \o password

\* bcrypt.compare(password, this.password)
validatePassword(user, password) == user.password = hashPassword(password)

\* value || ''
OrEmpty(v) == IF Falsy(v) THEN <<>> ELSE v

UserApiReprWithDigest(user) ==
    [username  |-> OrEmpty(user.username),
     firstName |-> OrEmpty(user.firstName),
     lastName  |-> OrEmpty(user.lastName),
     password  |-> user.password]

UserApiRepr(user) ==
    [username  |-> OrEmpty(user.username),
     firstName |-> OrEmpty(user.firstName),
     lastName  |-> OrEmpty(user.lastName)]

\* User.find({username}): the stored users with that username, in store order
FindUsers(us, username) == SelectSeq(us, LAMBDA u : u.username = username)

\* required: true on username and password
UserValid(doc) == ~Falsy(doc.username) /\ ~Falsy(doc.password)

UniqueIndexOff(us, username) == TRUE

\* unique: true on username: the store refuses a second document with the
\* same username
UniqueIndex(us, username) == Len(FindUsers(us, username)) = 0

----------------------------------------------------------------------------
(* models: BlogPost *)

\* `${this.author.firstName} ${this.author.lastName}`.trim()
authorName(post) ==
    trim(post.author.firstName \o Str(SP) \o post.author.lastName)

apiRepr(id, post) ==
    [id      |-> id,
     author  |-> authorName(post),
     content |-> post.content,
     title   |-> post.title,
     created |-> post.created]

\* title: {required: true}: undefined and the empty string are refused
PostValid(doc) == ~Falsy(doc.title)

RECURSIVE ReprsFrom(_, _)
ReprsFrom(ps, i) ==
    IF i > MaxPosts THEN <<>>
    ELSE (IF i \in DOMAIN ps THEN <<apiRepr(i, ps[i])>> ELSE <<>>)
         \o ReprsFrom(ps, i + 1)

ReprListSkipFirst(ps) == ReprsFrom(ps, 2)

\* posts.map(post => post.apiRepr()), in insertion order
ReprList(ps) == ReprsFrom(ps, 1)

Remove(ps, id) == [i \in DOMAIN ps \ {id} |-> ps[i]]

EmptyPosts == [i \in {} |-> 0]

----------------------------------------------------------------------------
(* Inputs *)

NoCreds == [username |-> Undefined, password |-> Undefined]

Creds ==
    {NoCreds}
    \cup [username : {Str("a"), Str("b")}, password : {Str("p")}]
    \cup [username : {Str("a")}, password : {Str("q")}]

UserBodies ==
    [username  : {Undefined, Str("a"), <<SP, "a">>, Str(SP)},
     password  : {Undefined, <<SP, "p">>},
     firstName : {Undefined, <<SP, "F">>},
     lastName  : {<<>>, Str("L")}]

PostBodies ==
    [title   : {Undefined, <<>>, Str("T")},
     content : {Undefined, Str("C")},
     author  : {Undefined, Str("X")}]

PathIds == 1 .. MaxPosts

PutBodies ==
    [id      : {NoId} \cup PathIds,
     title   : {Undefined, Str("U")},
     content : {Undefined, Str("D")}]

Routes == {"POST /posts", "PUT /posts/:id", "DELETE /posts/:id"}

----------------------------------------------------------------------------
(* The turn record *)

NoTurn == [kind |-> "none"]

\* kind: the step; req: the request as the step saw it; status, body: the
\* response the client gets for the request (NoResp: none); attempts: the
\* calls that send a response; verdicts: the calls of the verdict callback;
\* ops: the calls of a store operation (User.*, BlogPost.*); failed: a
\* store operation was rejected by the store
Turn(kind, req, status, body, attempts, verdicts, ops) ==
    [kind |-> kind, req |-> req, status |-> status, body |-> body,
     attempts |-> attempts, verdicts |-> verdicts, ops |-> ops,
     failed |-> FALSE]

Failed(t) == [t EXCEPT !.failed = TRUE]

Pending == BagToSet(reqs)

Room == BagCardinality(reqs) < MaxInFlight

Await(r) == reqs' = reqs (+) SetToBag({r})

Finish(r) == reqs' = reqs (-) SetToBag({r})

----------------------------------------------------------------------------
(* POST /users *)

requiredFields == <<"username", "password", "firstName", "lastName">>

LastMissing(body) ==
    LET miss == {i \in 1 .. 4 : Falsy(body[requiredFields[i]])}
    IN IF miss = {} THEN 0 ELSE CHOOSE i \in miss : \A j \in miss : j <= i

\* requiredFields.findIndex(field => !req.body[field]), 1-based, 0 for -1
missingIndex(body) ==
    LET miss == {i \in 1 .. 4 : Falsy(body[requiredFields[i]])}
    IN IF miss = {} THEN 0 ELSE CHOOSE i \in miss : \A j \in miss : i <= j

\* the handler up to the answer of User.find({username}).count()
PostUsers(body) ==
    /\ turn = NoTurn
    /\ LET mi == missingIndex(body)
           username == trim(body.username)
           password == trim(body.password)
           count == Len(FindUsers(users, username))
       IN IF mi # 0
          THEN /\ turn' = Turn("PostUsers", body, 400,
                               [message |-> <<"Missing field", requiredFields[mi]>>],
                               1, 0, 0)
               /\ UNCHANGED <<users, posts, nextId, reqs>>
          ELSE IF count > 0
          \* 422 is sent; the value returned is the response object, which the
          \* next then hands to User.create as the password: the document
          \* fails validation and the catch calls res.status(500).json
          THEN /\ turn' = Turn("PostUsers", body, 422,
                               [message |-> "username already taken"], 2, 0, 2)
               /\ UNCHANGED <<users, posts, nextId, reqs>>
          ELSE /\ Room
               /\ Await([pc |-> "user_create", body |-> body,
                         username |-> username,
                         password |-> hashPassword(password)])
               /\ turn' = Turn("PostUsers", body, NoResp, <<>>, 0, 0, 1)
               /\ UNCHANGED <<users, posts, nextId>>

\* User.create({username, password: hash, firstName, lastName}) and the
\* response
UserCreate(r) ==
    /\ turn = NoTurn
    /\ r \in Pending
    /\ r.pc = "user_create"
    /\ LET doc == [username  |-> r.username,
                   password  |-> r.password,
                   firstName |-> r.body.firstName,
                   lastName  |-> r.body.lastName]
       IN IF UserValid(doc) /\ UniqueIndex(users, doc.username)
          THEN /\ users' = Append(users, doc)
               /\ turn' = Turn("UserCreate", r.body, 201, UserApiRepr(doc), 1, 0, 1)
          ELSE /\ users' = users
               /\ turn' = Turn("UserCreate", r.body, 500,
                               [message |-> "Internal server error"], 1, 0, 1)
    /\ Finish(r)
    /\ UNCHANGED <<posts, nextId>>

----------------------------------------------------------------------------
(* The Auth Gate *)

strategyNoPassword(us, username, password) ==
    LET found == FindUsers(us, username)
    IN IF Len(found) = 0
       THEN [ok |-> FALSE, user |-> Undefined, verdicts |-> 2]
       ELSE [ok |-> TRUE, user |-> found[1], verdicts |-> 1]

\* the verify function of the BasicStrategy.  With no user the first then
\* calls callback(null, false) and returns its result, undefined, to the
\* second then, which calls callback(null, false) again.
strategy(us, username, password) ==
    LET found == FindUsers(us, username)
    IN IF Len(found) = 0
       THEN [ok |-> FALSE, user |-> Undefined, verdicts |-> 2]
       ELSE IF ~validatePassword(found[1], password)
       THEN [ok |-> FALSE, user |-> Undefined, verdicts |-> 1]
       ELSE [ok |-> TRUE, user |-> found[1], verdicts |-> 1]

\* passport.authenticate('basic', {session: false}) of a protected route up
\* to the verdict: credentials that are missing or empty are refused without
\* a lookup; every failed verdict sends 401
Authenticate(route, creds) ==
    /\ turn = NoTurn
    /\ LET req == [route |-> route, creds |-> creds]
       IN IF Falsy(creds.username) \/ Falsy(creds.password)
          THEN /\ turn' = Turn("Authenticate", req, 401, "Unauthorized", 1, 0, 0)
               /\ UNCHANGED <<users, posts, nextId, reqs>>
          ELSE LET v == strategy(users, creds.username, creds.password)
               IN IF ~v.ok
                  THEN /\ turn' = Turn("Authenticate", req, 401, "Unauthorized",
                                       v.verdicts, v.verdicts, 1)
                       /\ UNCHANGED <<users, posts, nextId, reqs>>
                  ELSE /\ Room
                       /\ Await([pc |-> "authed", route |-> route, user |-> v.user])
                       /\ turn' = Turn("Authenticate", req, NoResp, <<>>, 0, v.verdicts, 1)
                       /\ UNCHANGED <<users, posts, nextId>>

----------------------------------------------------------------------------
(* POST /posts *)

\* Date.now as logical time: one tick per insert
Now == nextId

NewPostFromBody(user, body) ==
    [title   |-> body.title,
     content |-> body.content,
     author  |-> [firstName |-> body.author, lastName |-> <<>>],
     created |-> Now]

\* the document handed to BlogPost.create
NewPost(user, body) ==
    [title   |-> body.title,
     content |-> body.content,
     author  |-> [firstName |-> user.firstName, lastName |-> user.lastName],
     created |-> Now]

\* the fields of requiredFields that are not in req.body, in order
MissingPostFields(body) ==
    SelectSeq(<<"title", "content">>, LAMBDA f : ~Present(body[f]))

\* the handler of POST /posts for an authenticated request, BlogPost.create
\* and the response.  Each missing field sends 400 and the handler goes on;
\* with both missing the second send throws inside the forEach and the
\* handler ends before BlogPost.create.  A send after the response was sent
\* throws: in the then it leads to the catch, whose send throws again.
PostPosts(r, body) ==
    /\ turn = NoTurn
    /\ r \in Pending
    /\ r.pc = "authed"
    /\ r.route = "POST /posts"
    /\ LET missing == MissingPostFields(body)
           req == [user |-> r.user, body |-> body]
           doc == NewPost(r.user, body)
           bad == [error |-> <<"Missing", IF missing = <<>> THEN "" ELSE missing[1]>>]
       IN IF Len(missing) = 2
          THEN /\ turn' = Turn("PostPosts", req, 400, bad, 2, 0, 0)
               /\ UNCHANGED <<posts, nextId>>
          ELSE IF PostValid(doc)
          THEN /\ nextId <= MaxPosts
               /\ posts' = posts @@ (nextId :> doc)
               /\ nextId' = nextId + 1
               /\ turn' = IF missing = <<>>
                          THEN Turn("PostPosts", req, 201, apiRepr(nextId, doc), 1, 0, 1)
                          ELSE Turn("PostPosts", req, 400, bad, 3, 0, 1)
          ELSE /\ UNCHANGED <<posts, nextId>>
               /\ turn' = IF missing = <<>>
                          THEN Turn("PostPosts", req, 500,
                                    [error |-> "Something went wrong"], 1, 0, 1)
                          ELSE Turn("PostPosts", req, 400, bad, 2, 0, 1)
    /\ Finish(r)
    /\ UNCHANGED users

----------------------------------------------------------------------------
(* PUT /posts/:id *)

\* req.params.id && req.body.id && req.params.id === req.body.id
IdsMatch(id, body) == body.id # NoId /\ id = body.id

UpdatedAll(post, body) ==
    [post EXCEPT !.title = body.title, !.content = body.content]

\* {$set: updated}: the fields of updateableFields that are in req.body
Updated(post, body) ==
    [post EXCEPT
        !.title   = IF Present(body.title) THEN body.title ELSE @,
        !.content = IF Present(body.content) THEN body.content ELSE @]

\* the handler of PUT /posts/:id for an authenticated request,
\* findByIdAndUpdate and the response.  The id check sends 400 and the
\* handler goes on to the update.
PutPosts(r, id, body) ==
    /\ turn = NoTurn
    /\ r \in Pending
    /\ r.pc = "authed"
    /\ r.route = "PUT /posts/:id"
    /\ LET req == [user |-> r.user, id |-> id, body |-> body]
           bad == [error |-> "Request path id and request body id values must match"]
       IN IF id \in DOMAIN posts
          THEN /\ posts' = [posts EXCEPT ![id] = Updated(posts[id], body)]
               /\ turn' = IF IdsMatch(id, body)
                          THEN Turn("PutPosts", req, 201,
                                    apiRepr(id, Updated(posts[id], body)), 1, 0, 1)
                          ELSE Turn("PutPosts", req, 400, bad, 3, 0, 1)
          \* updatedPost is null: apiRepr throws a TypeError into the catch
          ELSE /\ posts' = posts
               /\ turn' = IF IdsMatch(id, body)
                          THEN Turn("PutPosts", req, 500,
                                    [message |-> "Something went wrong"], 1, 0, 1)
                          ELSE Turn("PutPosts", req, 400, bad, 2, 0, 1)
    /\ Finish(r)
    /\ UNCHANGED <<users, nextId>>

----------------------------------------------------------------------------
(* DELETE /posts/:id *)

RemoveNothing(ps, id) == ps

\* findByIdAndRemove(req.params.id)
findByIdAndRemove(ps, id) == Remove(ps, id)

DeletePosts(r, id) ==
    /\ turn = NoTurn
    /\ r \in Pending
    /\ r.pc = "authed"
    /\ r.route = "DELETE /posts/:id"
    /\ posts' = findByIdAndRemove(posts, id)
    /\ turn' = Turn("DeletePosts", [user |-> r.user, id |-> id], 204,
                    [message |-> "success"], 1, 0, 1)
    /\ Finish(r)
    /\ UNCHANGED <<users, nextId>>

----------------------------------------------------------------------------
(* GET /posts and GET /posts/:id *)

GetPosts ==
    /\ turn = NoTurn
    /\ turn' = Turn("GetPosts", <<>>, 200, ReprList(posts), 1, 0, 1)
    /\ UNCHANGED <<users, posts, nextId, reqs>>

\* findById(req.params.id): with no such post, post is null and apiRepr
\* throws a TypeError into the catch
GetPostById(id) ==
    /\ turn = NoTurn
    /\ turn' = IF id \in DOMAIN posts
               THEN Turn("GetPostById", [id |-> id], 200, apiRepr(id, posts[id]), 1, 0, 1)
               ELSE Turn("GetPostById", [id |-> id], 500,
                         [error |-> "something went horribly awry"], 1, 0, 1)
    /\ UNCHANGED <<users, posts, nextId, reqs>>

----------------------------------------------------------------------------

EndTurn ==
    /\ turn # NoTurn
    /\ turn' = NoTurn
    /\ UNCHANGED <<users, posts, nextId, reqs>>

Init ==
    /\ users = <<>>
    /\ posts = EmptyPosts
    /\ nextId = 1
    /\ reqs = EmptyBag
    /\ turn = NoTurn

Next ==
    \/ \E body \in UserBodies : PostUsers(body)
    \/ \E r \in Pending : UserCreate(r)
    \/ \E route \in Routes, creds \in Creds : Authenticate(route, creds)
    \/ \E r \in Pending, body \in PostBodies : PostPosts(r, body)
    \/ \E r \in Pending, id \in PathIds, body \in PutBodies : PutPosts(r, id, body)
    \/ \E r \in Pending, id \in PathIds : DeletePosts(r, id)
    \/ GetPosts
    \/ \E id \in PathIds : GetPostById(id)
    \/ EndTurn

Spec == Init /\ [][Next]_vars

----------------------------------------------------------------------------
(* The same handlers when the store rejects the operation they issue *)

\* User.findOne(...).exec() is rejected: the chain of the verify function
\* has no rejection handler, so callback is never called and nothing is sent
AuthenticateFault(route, creds) ==
    /\ turn = NoTurn
    /\ ~Falsy(creds.username)
    /\ ~Falsy(creds.password)
    /\ turn' = Failed(Turn("Authenticate", [route |-> route, creds |-> creds],
                            NoResp, <<>>, 0, 0, 1))
    /\ UNCHANGED <<users, posts, nextId, reqs>>

\* the count is rejected: both thens are skipped, the catch sends 500
PostUsersFault(body) ==
    /\ turn = NoTurn
    /\ missingIndex(body) = 0
    /\ turn' = Failed(Turn("PostUsers", body, 500,
                            [message |-> "Internal server error"], 1, 0, 1))
    /\ UNCHANGED <<users, posts, nextId, reqs>>

UserCreateFault(r) ==
    /\ turn = NoTurn
    /\ r \in Pending
    /\ r.pc = "user_create"
    /\ turn' = Failed(Turn("UserCreate", r.body, 500,
                            [message |-> "Internal server error"], 1, 0, 1))
    /\ Finish(r)
    /\ UNCHANGED <<users, posts, nextId>>

\* BlogPost.create is rejected; it is called unless both fields are missing
PostPostsFault(r, body) ==
    /\ turn = NoTurn
    /\ r \in Pending
    /\ r.pc = "authed"
    /\ r.route = "POST /posts"
    /\ LET missing == MissingPostFields(body)
           req == [user |-> r.user, body |-> body]
       IN /\ Len(missing) < 2
          /\ turn' = Failed(
                 IF missing = <<>>
                 THEN Turn("PostPosts", req, 500,
                           [error |-> "Something went wrong"], 1, 0, 1)
                 ELSE Turn("PostPosts", req, 400,
                           [error |-> <<"Missing", missing[1]>>], 2, 0, 1))
    /\ Finish(r)
    /\ UNCHANGED <<users, posts, nextId>>

PutPostsFault(r, id, body) ==
    /\ turn = NoTurn
    /\ r \in Pending
    /\ r.pc = "authed"
    /\ r.route = "PUT /posts/:id"
    /\ LET req == [user |-> r.user, id |-> id, body |-> body]
       IN turn' = Failed(
              IF IdsMatch(id, body)
              THEN Turn("PutPosts", req, 500,
                        [message |-> "Something went wrong"], 1, 0, 1)
              ELSE Turn("PutPosts", req, 400,
                        [error |-> "Request path id and request body id values must match"],
                        2, 0, 1))
    /\ Finish(r)
    /\ UNCHANGED <<users, posts, nextId>>

DeletePostsFault(r, id) ==
    /\ turn = NoTurn
    /\ r \in Pending
    /\ r.pc = "authed"
    /\ r.route = "DELETE /posts/:id"
    /\ turn' = Failed(Turn("DeletePosts", [user |-> r.user, id |-> id], 500,
                            [error |-> "something went terribly wrong"], 1, 0, 1))
    /\ Finish(r)
    /\ UNCHANGED <<users, posts, nextId>>

GetPostsFault ==
    /\ turn = NoTurn
    /\ turn' = Failed(Turn("GetPosts", <<>>, 500,
                            [error |-> "something went terribly wrong"], 1, 0, 1))
    /\ UNCHANGED <<users, posts, nextId, reqs>>

GetPostByIdFault(id) ==
    /\ turn = NoTurn
    /\ turn' = Failed(Turn("GetPostById", [id |-> id], 500,
                            [error |-> "something went horribly awry"], 1, 0, 1))
    /\ UNCHANGED <<users, posts, nextId, reqs>>

NextFault ==
    \/ Next
    \/ \E route \in Routes, creds \in Creds : AuthenticateFault(route, creds)
    \/ \E body \in UserBodies : PostUsersFault(body)
    \/ \E r \in Pending : UserCreateFault(r)
    \/ \E r \in Pending, body \in PostBodies : PostPostsFault(r, body)
    \/ \E r \in Pending, id \in PathIds, body \in PutBodies : PutPostsFault(r, id, body)
    \/ \E r \in Pending, id \in PathIds : DeletePostsFault(r, id)
    \/ GetPostsFault
    \/ \E id \in PathIds : GetPostByIdFault(id)

SpecFault == Init /\ [][NextFault]_vars

----------------------------------------------------------------------------
(* Claims *)

Stepped(kind) == turn.kind = kind

Stepping(kind) == turn'.kind = kind

Registered(us, username) == \E i \in 1 .. Len(us) : us[i].username = username

\* credentials that are missing, name no stored user, or carry a password
\* that the digest of a stored user of that name does not verify
BadCreds(us, creds) ==
    \/ Falsy(creds.username)
    \/ Falsy(creds.password)
    \/ ~Registered(us, creds.username)
    \/ \E i \in 1 .. Len(us) :
          /\ us[i].username = creds.username
          /\ us[i].password # hashPassword(creds.password)

AllGiven(body) ==
    /\ ~Falsy(body.username)
    /\ ~Falsy(body.password)
    /\ ~Falsy(body.firstName)
    /\ ~Falsy(body.lastName)

\* C2 as claimed: a POST /users with all fields whose trimmed username is
\* stored when the request reaches the store, at the count or at the create,
\* is answered 422.
C2_DuplicateAlways422 ==
    [][((Stepping("PostUsers") \/ Stepping("UserCreate"))
        /\ AllGiven(turn'.req)
        /\ Registered(users, trim(turn'.req.username)))
       => turn'.status = 422]_vars

\* C3: no two user records of the credential store have the same username.
C3_UsernamesUnique ==
    \A i, j \in 1 .. Len(users) :
        users[i].username = users[j].username => i = j

\* a User.create lost the race for a username and the store kept one record
C3_Witness ==
    /\ Stepped("UserCreate")
    /\ turn.status = 500
    /\ Registered(users, trim(turn.req.username))

\* the post of a response to POST /posts is in the store and GET /posts and
\* GET /posts/:id return it as the response gave it
Readable(repr) ==
    /\ repr.id \in DOMAIN posts
    /\ apiRepr(repr.id, posts[repr.id]) = repr
    /\ \E k \in 1 .. Len(ReprList(posts)) : ReprList(posts)[k] = repr

\* C4 as claimed: an authenticated POST /posts with title and content in the
\* body is answered 201 with the title and content of the request, the post
\* is readable, and its author is firstName, a space, lastName.
C4_CreatedAsClaimed ==
    (Stepped("PostPosts") /\ Present(turn.req.body.title)
                          /\ Present(turn.req.body.content))
    => /\ turn.status = 201
       /\ Readable(turn.body)
       /\ turn.body.title = turn.req.body.title
       /\ turn.body.content = turn.req.body.content
       /\ turn.body.author
            = turn.req.user.firstName \o Str(SP) \o turn.req.user.lastName

\* C4 as amended: with a title that is not empty the answer is 201 with the
\* title and content of the request, the post is readable, and its author is
\* the trimmed "firstName lastName" of the authenticated user, whatever
\* author the body carries.
C4_Created ==
    (Stepped("PostPosts") /\ Present(turn.req.body.title)
                          /\ turn.req.body.title # <<>>
                          /\ Present(turn.req.body.content))
    => /\ turn.status = 201
       /\ Readable(turn.body)
       /\ turn.body.title = turn.req.body.title
       /\ turn.body.content = turn.req.body.content
       /\ turn.body.author
            = trim(turn.req.user.firstName \o Str(SP) \o turn.req.user.lastName)

\* a post was created from a body that carries an author of its own
C4_Witness ==
    /\ Stepped("PostPosts")
    /\ turn.status = 201
    /\ turn.req.body.author = Str("X")
    /\ turn.body.author = <<"F", SP, "L">>

\* C5: an authenticated PUT /posts/:id whose path id equals its body id, for
\* an existing post, sets the title and the content that the body has to the
\* body's values and leaves everything else as it was: the one of the two
\* that the body lacks, the author and created, every other post, the set
\* of posts and the users; it is answered 201 with the updated post.
C5_PutChangesOnlySentFields ==
    [][(/\ Stepping("PutPosts")
        /\ turn'.req.body.id # NoId
        /\ turn'.req.body.id = turn'.req.id
        /\ turn'.req.id \in DOMAIN posts)
       => LET id == turn'.req.id
              body == turn'.req.body
          IN /\ DOMAIN posts' = DOMAIN posts
             /\ \A i \in DOMAIN posts \ {id} : posts'[i] = posts[i]
             /\ posts'[id].title
                  = IF Present(body.title) THEN body.title ELSE posts[id].title
             /\ posts'[id].content
                  = IF Present(body.content) THEN body.content ELSE posts[id].content
             /\ posts'[id].author = posts[id].author
             /\ posts'[id].created = posts[id].created
             /\ users' = users
             /\ turn'.status = 201
             /\ turn'.body = [id |-> id,
                              author |-> authorName(posts[id]),
                              content |-> posts'[id].content,
                              title |-> posts'[id].title,
                              created |-> posts[id].created]]_vars

\* a PUT with a title and no content was applied to one of two posts, whose
\* content stayed
C5_Witness ==
    /\ Stepped("PutPosts")
    /\ turn.status = 201
    /\ turn.req.body.title = Str("U")
    /\ ~Present(turn.req.body.content)
    /\ turn.body.content = Str("C")
    /\ DOMAIN posts = {1, 2}

\* C6: an authenticated DELETE /posts/:id is answered 204 whether or not the
\* post existed, leaves no post of that id and leaves every other post as it
\* was; a post that was removed never comes back, and GET /posts/:id for an
\* id that has no post does not return a record.
C6_DeleteRemoves ==
    [][/\ Stepping("DeletePosts")
          => LET id == turn'.req.id
             IN /\ turn'.status = 204
                /\ id \notin DOMAIN posts'
                /\ DOMAIN posts' = DOMAIN posts \ {id}
                /\ \A i \in DOMAIN posts' : posts'[i] = posts[i]
       /\ \A id \in PathIds :
             (id < nextId /\ id \notin DOMAIN posts) => id \notin DOMAIN posts'
       /\ (Stepping("GetPostById") /\ turn'.req.id \notin DOMAIN posts)
             => turn'.status # 200]_vars

\* a GET /posts/:id for the id of a removed post was answered, and not 200
C6_Witness ==
    /\ Stepped("GetPostById")
    /\ turn.req.id < nextId
    /\ turn.req.id \notin DOMAIN posts
    /\ turn.status = 500

\* C7 as claimed: after a 201 to POST /users the store has a user whose
\* username is the username as submitted and whose digest verifies against
\* the password as submitted, and the response has username, firstName and
\* lastName only.
C7_RegisteredAsSubmitted ==
    (Stepped("UserCreate") /\ turn.status = 201)
    => /\ \E i \in 1 .. Len(users) :
             /\ users[i].username = turn.req.username
             /\ users[i].password = hashPassword(turn.req.password)
       /\ DOMAIN turn.body = {"username", "firstName", "lastName"}

\* C7 as amended: the username stored is the trimmed username and the digest
\* verifies against the trimmed password, so the Auth Gate accepts the
\* trimmed pair when neither is empty; the response has the trimmed
\* username, firstName and lastName and nothing else.
C7_RegisteredTrimmed ==
    (Stepped("UserCreate") /\ turn.status = 201)
    => LET u == trim(turn.req.username)
           p == trim(turn.req.password)
       IN /\ \E i \in 1 .. Len(users) :
                /\ users[i].username = u
                /\ users[i].password = hashPassword(p)
                /\ users[i].password # p
          /\ (u # <<>> /\ p # <<>>)
                => ~BadCreds(users, [username |-> u, password |-> p])
          /\ turn.body = [username  |-> u,
                          firstName |-> turn.req.firstName,
                          lastName  |-> turn.req.lastName]

\* a user was registered from a username with a leading space
C7_Witness ==
    /\ Stepped("UserCreate")
    /\ turn.status = 201
    /\ turn.req.username = <<SP, "a">>
    /\ Len(users) = 1

FirstMissing(body) ==
    IF Falsy(body.username) THEN "username"
    ELSE IF Falsy(body.password) THEN "password"
    ELSE IF Falsy(body.firstName) THEN "firstName"
    ELSE "lastName"

\* C8: a POST /users whose body lacks, or has empty, one of username,
\* password, firstName, lastName is answered 400 with a message that names
\* the first such field in that order; it calls no store operation, creates
\* no user and leaves no request waiting.
C8_MissingField400 ==
    [][(Stepping("PostUsers") /\ ~AllGiven(turn'.req))
       => /\ turn'.status = 400
          /\ turn'.body.message = <<"Missing field", FirstMissing(turn'.req)>>
          /\ turn'.ops = 0
          /\ UNCHANGED <<users, posts, nextId, reqs>>]_vars

\* a body without password and with an empty lastName was answered 400
C8_Witness ==
    /\ Stepped("PostUsers")
    /\ turn.status = 400
    /\ ~Falsy(turn.req.username)
    /\ turn.req.password = Undefined
    /\ turn.req.lastName = <<>>
    /\ turn.body.message = <<"Missing field", "password">>

\* C9 as claimed: a request one of whose store operations was rejected is
\* answered 500, the operation having been called once.
C9_StoreFailure500 ==
    (turn.kind # "none" /\ turn.failed) => (turn.status = 500 /\ turn.ops = 1)

\* C10 as claimed: an authenticated PUT /posts/:id whose body id is absent
\* or differs from the path id is answered 400 and every post keeps its
\* title and content.
C10_MismatchNotApplied ==
    [][(/\ Stepping("PutPosts")
        /\ (turn'.req.body.id = NoId \/ turn'.req.body.id # turn'.req.id))
       => /\ turn'.status = 400
          /\ DOMAIN posts' = DOMAIN posts
          /\ \A i \in DOMAIN posts :
                /\ posts'[i].title = posts[i].title
                /\ posts'[i].content = posts[i].content]_vars

\* C11 as claimed: an authenticated POST /posts whose body lacks title or
\* lacks content is answered 400 and the post store is the same after it
\* as before it.
C11_MissingFieldCreatesNothing ==
    [][(/\ Stepping("PostPosts")
        /\ (~Present(turn'.req.body.title) \/ ~Present(turn'.req.body.content)))
       => /\ turn'.status = 400
          /\ posts' = posts]_vars

\* the entry of GET /posts for the stored post of an id
Entry(id) ==
    [id      |-> id,
     author  |-> trim(posts[id].author.firstName \o Str(SP)
                      \o posts[id].author.lastName),
     content |-> posts[id].content,
     title   |-> posts[id].title,
     created |-> posts[id].created]

\* C12: GET /posts is answered 200 with as many entries as the store has
\* posts, the entry {id, author, content, title, created} of every stored
\* post among them, author being the trimmed "firstName lastName" of the
\* post; it needs no credentials and changes no store.
C12_GetPostsListsStore ==
    [][Stepping("GetPosts")
       => /\ turn'.status = 200
          /\ Len(turn'.body) = Cardinality(DOMAIN posts)
          /\ \A id \in DOMAIN posts :
                \E k \in 1 .. Len(turn'.body) : turn'.body[k] = Entry(id)
          /\ \A k \in 1 .. Len(turn'.body) :
                DOMAIN turn'.body[k]
                   = {"id", "author", "content", "title", "created"}
          /\ turn'.verdicts = 0
          /\ UNCHANGED <<users, posts, nextId, reqs>>]_vars

\* GET /posts listed two posts, of an author whose firstName has a leading
\* space
C12_Witness ==
    /\ Stepped("GetPosts")
    /\ turn.status = 200
    /\ Len(turn.body) = 2
    /\ DOMAIN posts = {1, 2}
    /\ turn.body[1].author = <<"F", SP, "L">>

HandlerSteps ==
    {"PostUsers", "UserCreate", "PostPosts", "PutPosts", "DeletePosts",
     "GetPosts", "GetPostById"}

\* C13 as claimed: a handler calls a send of a response at most once for
\* a request.
C13_AnsweredAtMostOnce ==
    (turn.kind \in HandlerSteps) => turn.attempts <= 1

\* C14 as claimed: an authentication whose lookup of the user completed
\* called the verdict callback once: with failure, answered 401, when the
\* username is unknown or the password does not verify, with the user
\* otherwise.
C14_OneVerdict ==
    (Stepped("Authenticate") /\ turn.ops = 1 /\ ~turn.failed)
    => /\ turn.verdicts = 1
       /\ (turn.status = 401) <=> BadCreds(users, turn.req.creds)

====
